---- MODULE Spec2Model ----
(***************************************************************************)
(* A model of the scripting-language interpreter of main.py and nodes.py:  *)
(* the TPG grammar that builds the syntax tree, the node classes that      *)
(* evaluate it against global_scope, and the driver's try/except.          *)
(*                                                                         *)
(* Python values are modelled with their Python semantics:                 *)
(*   - int is unbounded, so an Integer is a sign and a magnitude held as   *)
(*     a little-endian sequence of bits without a most significant 0;      *)
(*   - str is a sequence of one-character strings;                         *)
(*   - list is a reference into a heap of mutable objects, so that two     *)
(*     names bound to the same list share it as they do in Python.         *)
(***************************************************************************)
EXTENDS Integers, Sequences, FiniteSets

VARIABLES pc, code, node, stack, global_scope, heap, function_name_to_body,
          stdout, exc, escaped

vars == <<pc, code, node, stack, global_scope, heap, function_name_to_body,
          stdout, exc, escaped>>

(***************************************************************************)
(* Python int: magnitudes                                                  *)
(***************************************************************************)

RECURSIVE NatFromInt(_)
NatFromInt(n) == IF n = 0 THEN <<>> ELSE <<n % 2>> \o NatFromInt(n \div 2)

RECURSIVE NatToInt(_)
NatToInt(x) == IF x = <<>> THEN 0 ELSE x[1] + 2 * NatToInt(Tail(x))

\* the largest element of a nonempty set of integers
Max(S) == CHOOSE i \in S : \A j \in S : j <= i

\* bit i of a magnitude (1 is the least significant)
Bit(x, i) == IF i <= Len(x) THEN x[i] ELSE 0

\* the bits without the zeros above the most significant 1
Norm(x) ==
    LET ones == {i \in 1..Len(x) : x[i] = 1}
    IN  IF ones = {} THEN <<>> ELSE SubSeq(x, 1, Max(ones))

\* 1, 0, -1 as x > y, x = y, x < y
NatCmp(x, y) ==
    IF Len(x) > Len(y) THEN 1
    ELSE IF Len(x) < Len(y) THEN -1
    ELSE LET diff == {i \in 1..Len(x) : x[i] # y[i]}
         IN  IF diff = {} THEN 0
             ELSE IF x[Max(diff)] > y[Max(diff)] THEN 1 ELSE -1

\* x + y: the carry into bit i comes from the nearest lower position where the
\* bits do not differ, when both are 1 there
NatAdd(x, y) ==
    LET n == (IF Len(x) > Len(y) THEN Len(x) ELSE Len(y)) + 1
        carry(i) ==
            LET same == {j \in 1..(i - 1) : Bit(x, j) = Bit(y, j)}
            IN  IF same # {} /\ Bit(x, Max(same)) = 1 THEN 1 ELSE 0
    IN  Norm([i \in 1..n |-> (Bit(x, i) + Bit(y, i) + carry(i)) % 2])

\* x - y for x >= y: the borrow into bit i comes from the nearest lower position
\* where the bits differ, when the bit of y is the 1 there
NatSub(x, y) ==
    LET borrow(i) ==
            LET diff == {j \in 1..(i - 1) : Bit(x, j) # Bit(y, j)}
            IN  IF diff # {} /\ Bit(y, Max(diff)) = 1 THEN 1 ELSE 0
    IN  Norm([i \in 1..Len(x) |-> (Bit(x, i) - Bit(y, i) - borrow(i)) % 2])

ShiftLeft(x, k) == IF x = <<>> THEN <<>> ELSE [i \in 1..k |-> 0] \o x

ShiftRight(x, k) == IF k >= Len(x) THEN <<>> ELSE SubSeq(x, k + 1, Len(x))

\* x * y: x times the lower half of y's bits plus x times the upper half
RECURSIVE NatMul(_, _)
NatMul(x, y) ==
    IF y = <<>> \/ x = <<>> THEN <<>>
    ELSE IF Len(y) = 1 THEN x
    ELSE LET h == Len(y) \div 2
         IN  NatAdd(NatMul(x, Norm(SubSeq(y, 1, h))),
                    ShiftLeft(NatMul(x, SubSeq(y, h + 1, Len(y))), h))

\* long division of x by y /= 0 over the bits hi down to lo of x, r the
\* remainder so far: [q: the quotient's bits hi..lo, r: the remainder]
RECURSIVE DivBits(_, _, _, _, _)
DivBits(x, y, hi, lo, r) ==
    IF hi = lo
    THEN LET r2 == Norm(<<x[hi]>> \o r)
         IN  IF NatCmp(r2, y) >= 0 THEN [q |-> <<1>>, r |-> NatSub(r2, y)]
             ELSE [q |-> <<0>>, r |-> r2]
    ELSE LET mid   == (hi + lo) \div 2
             upper == DivBits(x, y, hi, mid + 1, r)
         IN  IF upper.r = <<>>
             THEN LET lower == DivBits(x, y, mid, lo, <<>>)
                  IN  [q |-> lower.q \o upper.q, r |-> lower.r]
             ELSE LET lower == DivBits(x, y, mid, lo, upper.r)
                  IN  [q |-> lower.q \o upper.q, r |-> lower.r]

\* <<quotient, remainder>> of x by y /= 0
NatDivMod(x, y) ==
    IF x = <<>> THEN <<<<>>, <<>>>>
    ELSE LET Result(d) == <<Norm(d.q), d.r>>
         IN  Result(DivBits(x, y, Len(x), 1, <<>>))

NatTen == <<0, 1, 0, 1>>

\* 10^k
RECURSIVE PowerOfTen(_)
PowerOfTen(k) ==
    IF k = 0 THEN <<1>>
    ELSE IF k % 2 = 1 THEN NatMul(PowerOfTen(k - 1), NatTen)
    ELSE NatMul(PowerOfTen(k \div 2), PowerOfTen(k \div 2))

\* int(text) of a token matched by \d+, the digits most significant first:
\* the value of the leading digits times 10^(the number of the others) plus
\* the value of the others
RECURSIVE DigitsToNat(_)
DigitsToNat(ds) ==
    IF ds = <<>> THEN <<>>
    ELSE IF Len(ds) = 1 THEN NatFromInt(ds[1])
    ELSE LET h == Len(ds) \div 2
         IN  NatAdd(NatMul(DigitsToNat(SubSeq(ds, 1, Len(ds) - h)), PowerOfTen(h)),
                    DigitsToNat(SubSeq(ds, Len(ds) - h + 1, Len(ds))))

(***************************************************************************)
(* Values.  An Integer is [k |-> "int", s, m]: sign s (1 or -1; 1 for 0)   *)
(* and magnitude m.  Text is [k |-> "str", v]: the characters.  A list is  *)
(* [k |-> "ref", v]: the position in heap of the list object.              *)
(***************************************************************************)

IntVal(s, m) == [k |-> "int", s |-> IF m = <<>> THEN 1 ELSE s, m |-> m]

\* the Integer with the value of the TLA+ integer n
I(n) == IntVal(IF n < 0 THEN -1 ELSE 1, NatFromInt(IF n < 0 THEN -n ELSE n))

StrVal(chars) == [k |-> "str", v |-> chars]

RefVal(addr) == [k |-> "ref", v |-> addr]

IsInt(v) == v.k = "int"

IsStr(v) == v.k = "str"

IsList(v) == v.k = "ref"

\* left + right on two ints
IntAdd(a, b) ==
    IF a.s = b.s THEN IntVal(a.s, NatAdd(a.m, b.m))
    ELSE IF NatCmp(a.m, b.m) >= 0 THEN IntVal(a.s, NatSub(a.m, b.m))
    ELSE IntVal(b.s, NatSub(b.m, a.m))

IntNeg(a) == IntVal(-a.s, a.m)

\* left - right
IntSub(a, b) == IntAdd(a, IntNeg(b))

\* left * right
IntMul(a, b) == IntVal(a.s * b.s, NatMul(a.m, b.m))

\* left == right on two ints
IntEq(a, b) == a.s = b.s /\ a.m = b.m

\* left < right on two ints
IntLess(a, b) ==
    IF a.s # b.s THEN a.s < b.s
    ELSE IF a.s = 1 THEN NatCmp(a.m, b.m) < 0
    ELSE NatCmp(a.m, b.m) > 0

\* the value as a TLA+ integer, for an Integer small enough to be a position
IntToTLA(a) == a.s * NatToInt(a.m)

\* the width of a double's significand, and the exponent past its largest value
DBL_MANT_DIG == 53

DBL_MAX_EXP == 1024

(***************************************************************************)
(* int(left / right) for ints, right /= 0.  left / right is Python's true  *)
(* division: the double nearest the exact quotient, ties to the even       *)
(* significand, OverflowError when that is beyond the largest double.      *)
(* The quotient is taken with at least DBL_MANT_DIG + 2 bits, rounded to   *)
(* DBL_MANT_DIG bits, scaled back, and int() then drops the fraction.      *)
(* The result is [exc, val].                                               *)
(***************************************************************************)
TrueDivTrunc(a, b) ==
    IF a.m = <<>> THEN [exc |-> "none", val |-> I(0)]
    ELSE
    LET diff  == Len(a.m) - Len(b.m)
        shift == IF DBL_MANT_DIG + 3 - diff > 0 THEN DBL_MANT_DIG + 3 - diff ELSE 0
        \* int() of the double with significand mant and exponent e
        Truncated(mant, e) ==
            IF Len(mant) + e > DBL_MAX_EXP
            THEN [exc |-> "OverflowError", val |-> I(0)]
            ELSE [exc |-> "none",
                  val |-> IntVal(a.s * b.s,
                                 IF e >= 0 THEN ShiftLeft(mant, e)
                                 ELSE ShiftRight(mant, -e))]
        \* the quotient q with remainder rem, rounded to DBL_MANT_DIG bits
        Rounded(q, rem) ==
            LET drop == Len(q) - DBL_MANT_DIG
                kept == ShiftRight(q, drop)
                half == q[drop] = 1
                rest == (\E i \in 1..(drop - 1) : q[i] = 1) \/ rem # <<>>
                up   == half /\ (rest \/ kept[1] = 1)
            IN  Truncated(IF up THEN NatAdd(kept, <<1>>) ELSE kept, drop - shift)
        Divided(qr) == Rounded(qr[1], qr[2])
    IN  Divided(NatDivMod(ShiftLeft(a.m, shift), b.m))


(***************************************************************************)
(* The nodes of the syntax tree, as their constructors build them.         *)
(***************************************************************************)

\* the decimal digits as characters, and the digit a character stands for
DigitChars == <<"0", "1", "2", "3", "4", "5", "6", "7", "8", "9">>

DigitOf(c) == CHOOSE d \in 0..9 : DigitChars[d + 1] = c

\* IntLiteral.__init__: int(value) of the token's text
IntLiteral(value) ==
    [op |-> "IntLiteral",
     value |-> IntVal(1, DigitsToNat([i \in 1..Len(value) |-> DigitOf(value[i])]))]

\* StringLiteral.__init__: the token's text without its first and last character
StringLiteral(value) ==
    [op |-> "StringLiteral", value |-> SubSeq(value, 2, Len(value) - 1)]

Variable(name) == [op |-> "Variable", name |-> name]

Add(left, right) == [op |-> "Add", left |-> left, right |-> right]

Subtract(left, right) == [op |-> "Subtract", left |-> left, right |-> right]

Multiply(left, right) == [op |-> "Multiply", left |-> left, right |-> right]

Divide(left, right) == [op |-> "Divide", left |-> left, right |-> right]

And(left, right) == [op |-> "And", left |-> left, right |-> right]

Or(left, right) == [op |-> "Or", left |-> left, right |-> right]

Not(operand) == [op |-> "Not", operand |-> operand]

Xor(left, right) == [op |-> "Xor", left |-> left, right |-> right]

LessThan(left, right) == [op |-> "LessThan", left |-> left, right |-> right]

GreaterThan(left, right) == [op |-> "GreaterThan", left |-> left, right |-> right]

IsEqual(left, right) == [op |-> "IsEqual", left |-> left, right |-> right]

StringIndex(string, index) == [op |-> "StringIndex", string |-> string, index |-> index]

ListIndex(my_list, index) == [op |-> "ListIndex", list |-> my_list, index |-> index]

VarIndex(var, index) == [op |-> "VarIndex", var |-> var, index |-> index]

MakeEmptyList == [op |-> "MakeEmptyList"]

MakeSingleElementList(element) == [op |-> "MakeSingleElementList", element |-> element]

MakeList(element1, element2) ==
    [op |-> "MakeList", element1 |-> element1, element2 |-> element2]

Assign(left, right) == [op |-> "Assign", left |-> left, right |-> right]

Block(statement1, statement2) ==
    [op |-> "Block", statement1 |-> statement1, statement2 |-> statement2]

PrintStmt(expression) == [op |-> "Print", expression |-> expression]

If(expression, statement) ==
    [op |-> "If", expression |-> expression, statement |-> statement]

IfElse(condition, if_body, else_body) ==
    [op |-> "IfElse", condition |-> condition, if_body |-> if_body,
     else_body |-> else_body]

While(expression, statement) ==
    [op |-> "While", expression |-> expression, statement |-> statement]

FunctionBody(name, parameter, body) ==
    [op |-> "FunctionBody", name |-> name, parameter |-> parameter, body |-> body]

(***************************************************************************)
(* The parser of main.py.  Its input is the token sequence the lexer makes *)
(* of the text: a token is [t, v], t the token's kind ("int", "str",       *)
(* "variable", or the lexeme of an inline token such as "print" or "{")    *)
(* and v its text, a sequence of strings: the characters of an int or a    *)
(* str, the name of a variable in one piece, nothing for an inline token.  *)
(* A rule is tried at a position p and gives                               *)
(*   [st |-> "ok", a, p]   the rule's value and the position after it,     *)
(*   [st |-> "wrong"]      no match (tpg.WrongToken: the caller tries its  *)
(*                         next alternative or leaves its loop),           *)
(*   [st |-> "raise", exc] a Python exception that no rule catches.        *)
(* A rule's alternatives are tried in the order written and the first that *)
(* matches is taken; a repetition takes as many rounds as match.  A rule   *)
(* returns its variable a; when no round of a repetition bound it, that    *)
(* read raises UnboundLocalError.                                          *)
(***************************************************************************)

Unbound == [op |-> "<unbound>"]

POk(a, p) == [st |-> "ok", a |-> a, p |-> p, exc |-> "none"]

PWrong == [st |-> "wrong", a |-> Unbound, p |-> 0, exc |-> "none"]

PRaise(e) == [st |-> "raise", a |-> Unbound, p |-> 0, exc |-> e]

\* the kind of the token at p, "EOF" past the end
Tok(toks, p) == IF p <= Len(toks) THEN toks[p].t ELSE "EOF"

\* rule/a at position p: the rule of main.py's grammar with that name.  The
\* rules name each other through Rule, which is defined after them.
RECURSIVE Rule(_, _, _)
RECURSIVE BooleanLoop(_, _, _), ComparisonLoop(_, _, _), BitwiseexprLoop(_, _, _)
RECURSIVE AddsubLoop(_, _, _), MuldivLoop(_, _, _), IndexLoop(_, _, _, _)
RECURSIVE ListLoop(_, _, _), BlockInner(_, _, _), BlockOuter(_, _, _), StartLoop(_, _, _)


\* expression/a -> boolean/a
ParseExpression(toks, p) == Rule("boolean", toks, p)

\* boolean/a -> "not" boolean/a $ a = Not(a) $ | comparison/a ( ... )*
ParseBoolean(toks, p) ==
    LET neg == IF Tok(toks, p) = "not"
               THEN LET r == Rule("boolean", toks, p + 1)
                    IN  IF r.st = "ok" THEN POk(Not(r.a), r.p) ELSE r
               ELSE PWrong
    IN  IF neg.st = "ok" THEN neg
        ELSE LET c == Rule("comparison", toks, p)
             IN  IF c.st = "ok" THEN BooleanLoop(toks, c.p, c.a) ELSE c

\* ( "and" comparison/b $ a = And(a, b) $ | "or" comparison/b $ a = Or(a, b) $ )*
BooleanLoop(toks, p, a) ==
    IF Tok(toks, p) \in {"and", "or"}
    THEN LET b == Rule("comparison", toks, p + 1)
         IN  IF b.st = "ok"
             THEN BooleanLoop(toks, b.p,
                              IF Tok(toks, p) = "and" THEN And(a, b.a) ELSE Or(a, b.a))
             ELSE POk(a, p)
    ELSE POk(a, p)

ParseComparison(toks, p) ==
    LET r == Rule("bitwiseexpr", toks, p)
    IN  IF r.st = "ok" THEN ComparisonLoop(toks, r.p, r.a) ELSE r

ComparisonLoop(toks, p, a) ==
    IF Tok(toks, p) \in {"<", ">", "=="}
    THEN LET b == Rule("bitwiseexpr", toks, p + 1)
         IN  IF b.st = "ok"
             THEN ComparisonLoop(toks, b.p,
                                 CASE Tok(toks, p) = "<" -> LessThan(a, b.a)
                                   [] Tok(toks, p) = ">" -> GreaterThan(a, b.a)
                                   [] OTHER -> IsEqual(a, b.a))
             ELSE POk(a, p)
    ELSE POk(a, p)

ParseBitwiseexpr(toks, p) ==
    LET r == Rule("addsub", toks, p)
    IN  IF r.st = "ok" THEN BitwiseexprLoop(toks, r.p, r.a) ELSE r

BitwiseexprLoop(toks, p, a) ==
    IF Tok(toks, p) = "xor"
    THEN LET b == Rule("addsub", toks, p + 1)
         IN  IF b.st = "ok" THEN BitwiseexprLoop(toks, b.p, Xor(a, b.a)) ELSE POk(a, p)
    ELSE POk(a, p)

ParseAddsub(toks, p) ==
    LET r == Rule("muldiv", toks, p)
    IN  IF r.st = "ok" THEN AddsubLoop(toks, r.p, r.a) ELSE r

AddsubLoop(toks, p, a) ==
    IF Tok(toks, p) \in {"+", "-"}
    THEN LET b == Rule("muldiv", toks, p + 1)
         IN  IF b.st = "ok"
             THEN AddsubLoop(toks, b.p,
                             IF Tok(toks, p) = "+" THEN Add(a, b.a) ELSE Subtract(a, b.a))
             ELSE POk(a, p)
    ELSE POk(a, p)

ParseMuldiv(toks, p) ==
    LET r == Rule("parens", toks, p)
    IN  IF r.st = "ok" THEN MuldivLoop(toks, r.p, r.a) ELSE r

MuldivLoop(toks, p, a) ==
    IF Tok(toks, p) \in {"*", "/"}
    THEN LET b == Rule("parens", toks, p + 1)
         IN  IF b.st = "ok"
             THEN MuldivLoop(toks, b.p,
                             IF Tok(toks, p) = "*" THEN Multiply(a, b.a) ELSE Divide(a, b.a))
             ELSE POk(a, p)
    ELSE POk(a, p)

\* parens/a -> "\(" expression/a "\)" | literal/a
ParseParens(toks, p) ==
    LET par == IF Tok(toks, p) = "("
               THEN LET r == Rule("expression", toks, p + 1)
                    IN  IF r.st = "ok" /\ Tok(toks, r.p) = ")"
                        THEN POk(r.a, r.p + 1) ELSE PWrong
               ELSE PWrong
    IN  IF par.st = "ok" THEN par ELSE Rule("literal", toks, p)

\* ( "\[" boolean/b "\]" $ a = StringIndex(a, b) $ )* and the like for a list
\* and for a variable; kind is the node built
IndexLoop(toks, p, a, kind) ==
    IF Tok(toks, p) = "["
    THEN LET b == Rule("boolean", toks, p + 1)
         IN  IF b.st = "ok" /\ Tok(toks, b.p) = "]"
             THEN IndexLoop(toks, b.p + 1,
                            CASE kind = "StringIndex" -> StringIndex(a, b.a)
                              [] kind = "ListIndex" -> ListIndex(a, b.a)
                              [] OTHER -> VarIndex(a, b.a),
                            kind)
             ELSE POk(a, p)
    ELSE POk(a, p)

\* literal/a -> int/a | stringindexing/a | listindexing/a | varindexing/a | variable/a
ParseLiteral(toks, p) ==
    IF Tok(toks, p) = "int" THEN POk(IntLiteral(toks[p].v), p + 1)
    ELSE IF Tok(toks, p) = "str"
    THEN IndexLoop(toks, p + 1, StringLiteral(toks[p].v), "StringIndex")
    ELSE LET l == Rule("list", toks, p)
         IN  IF l.st = "ok" THEN IndexLoop(toks, l.p, l.a, "ListIndex")
             ELSE IF Tok(toks, p) = "variable"
             THEN IndexLoop(toks, p + 1, Variable(toks[p].v[1]), "VarIndex")
             ELSE PWrong

\* ("," expression/b $ a = MakeList(a, b) $ )*
ListLoop(toks, p, a) ==
    IF Tok(toks, p) = ","
    THEN LET b == Rule("expression", toks, p + 1)
         IN  IF b.st = "ok" THEN ListLoop(toks, b.p, MakeList(a, b.a)) ELSE POk(a, p)
    ELSE POk(a, p)

\* list/a -> "\[" "\]" $ a = MakeEmptyList() $
\*         | "\[" (expression/a) "\]" $ a = MakeSingleElementList(a) $
\*         | "\[" (expression/a ("," expression/b $ a = MakeList(a, b) $ )*) "\]"
ParseList(toks, p) ==
    IF Tok(toks, p) # "[" THEN PWrong
    ELSE IF Tok(toks, p + 1) = "]" THEN POk(MakeEmptyList, p + 2)
    ELSE LET e == Rule("expression", toks, p + 1)
         IN  IF e.st # "ok" THEN PWrong
             ELSE IF Tok(toks, e.p) = "]"
             THEN POk(MakeSingleElementList(e.a), e.p + 1)
             ELSE LET m == ListLoop(toks, e.p, e.a)
                  IN  IF Tok(toks, m.p) = "]" THEN POk(m.a, m.p + 1) ELSE PWrong

\* (statement/b $ a = Block(a, b) $ )*
BlockInner(toks, p, a) ==
    LET b == Rule("statement", toks, p)
    IN  IF b.st = "raise" THEN b
        ELSE IF b.st = "wrong" THEN POk(a, p)
        ELSE BlockInner(toks, b.p, Block(a, b.a))

\* (statement/a (statement/b $ a = Block(a, b) $ )* )*
BlockOuter(toks, p, a) ==
    LET s == Rule("statement", toks, p)
    IN  IF s.st = "raise" THEN s
        ELSE IF s.st = "wrong" THEN POk(a, p)
        ELSE LET i == BlockInner(toks, s.p, s.a)
             IN  IF i.st = "raise" THEN i ELSE BlockOuter(toks, i.p, i.a)

\* "\{" (statement/a (statement/b $ a = Block(a, b) $ )* )* "\}"
StatementBlock(toks, p) ==
    IF Tok(toks, p) # "{" THEN PWrong
    ELSE LET r == BlockOuter(toks, p + 1, Unbound)
         IN  IF r.st = "raise" THEN r
             ELSE IF Tok(toks, r.p) # "}" THEN PWrong
             ELSE IF r.a.op = Unbound.op THEN PRaise("UnboundLocalError")
             ELSE POk(r.a, r.p + 1)

\* expression/l "=(?!=)" expression/r ";" $ a = Assign(l, r) $
StatementAssign(toks, p) ==
    LET l == Rule("expression", toks, p)
    IN  IF l.st # "ok" \/ Tok(toks, l.p) # "=" THEN PWrong
        ELSE LET r == Rule("expression", toks, l.p + 1)
             IN  IF r.st # "ok" \/ Tok(toks, r.p) # ";" THEN PWrong
                 ELSE POk(Assign(l.a, r.a), r.p + 1)

\* "print" "\(" expression/e "\)" ";" $ a = Print(e) $
StatementPrint(toks, p) ==
    IF Tok(toks, p) # "print" \/ Tok(toks, p + 1) # "(" THEN PWrong
    ELSE LET e == Rule("expression", toks, p + 2)
         IN  IF e.st # "ok" \/ Tok(toks, e.p) # ")" \/ Tok(toks, e.p + 1) # ";"
             THEN PWrong
             ELSE POk(PrintStmt(e.a), e.p + 2)

\* kw "\(" expression "\)" statement, the common start of if, if-else and while:
\* [st, c: the expression, s: the statement, p]
Conditional(toks, p, kw) ==
    IF Tok(toks, p) # kw \/ Tok(toks, p + 1) # "("
    THEN [st |-> "wrong", c |-> Unbound, s |-> Unbound, p |-> 0, exc |-> "none"]
    ELSE LET c == Rule("expression", toks, p + 2)
         IN  IF c.st # "ok" \/ Tok(toks, c.p) # ")"
             THEN [st |-> "wrong", c |-> Unbound, s |-> Unbound, p |-> 0, exc |-> "none"]
             ELSE LET s == Rule("statement", toks, c.p + 1)
                  IN  [st |-> s.st, c |-> c.a, s |-> s.a, p |-> s.p, exc |-> s.exc]

\* "if" "\(" expression/c "\)" statement/s "else" statement/t $ a = IfElse(c, s, t) $
StatementIfElse(toks, p) ==
    LET h == Conditional(toks, p, "if")
    IN  IF h.st = "raise" THEN PRaise(h.exc)
        ELSE IF h.st = "wrong" \/ Tok(toks, h.p) # "else" THEN PWrong
        ELSE LET t == Rule("statement", toks, h.p + 1)
             IN  IF t.st = "ok" THEN POk(IfElse(h.c, h.s, t.a), t.p) ELSE t

\* "if" "\(" expression/e "\)" statement/s $ a = If(e, s) $
StatementIf(toks, p) ==
    LET h == Conditional(toks, p, "if")
    IN  IF h.st = "raise" THEN PRaise(h.exc)
        ELSE IF h.st = "wrong" THEN PWrong
        ELSE POk(If(h.c, h.s), h.p)

\* "while" "\(" expression/e "\)" statement/s $ a = While(e, s) $
StatementWhile(toks, p) ==
    LET h == Conditional(toks, p, "while")
    IN  IF h.st = "raise" THEN PRaise(h.exc)
        ELSE IF h.st = "wrong" THEN PWrong
        ELSE POk(While(h.c, h.s), h.p)

\* expression/n "\(" expression/p "\)" statement/b $ a = FunctionBody(n, p, b) $
StatementFunctionBody(toks, p) ==
    LET n == Rule("expression", toks, p)
    IN  IF n.st # "ok" \/ Tok(toks, n.p) # "(" THEN PWrong
        ELSE LET q == Rule("expression", toks, n.p + 1)
             IN  IF q.st # "ok" \/ Tok(toks, q.p) # ")" THEN PWrong
                 ELSE LET b == Rule("statement", toks, q.p + 1)
                      IN  IF b.st = "ok" THEN POk(FunctionBody(n.a, q.a, b.a), b.p)
                          ELSE b

\* statement/a: the seven alternatives in the order written
ParseStatement(toks, p) ==
    LET a1 == StatementBlock(toks, p)
        a2 == StatementAssign(toks, p)
        a3 == StatementPrint(toks, p)
        a4 == StatementIfElse(toks, p)
        a5 == StatementIf(toks, p)
        a6 == StatementWhile(toks, p)
    IN  IF a1.st # "wrong" THEN a1
        ELSE IF a2.st # "wrong" THEN a2
        ELSE IF a3.st # "wrong" THEN a3
        ELSE IF a4.st # "wrong" THEN a4
        ELSE IF a5.st # "wrong" THEN a5
        ELSE IF a6.st # "wrong" THEN a6
        ELSE StatementFunctionBody(toks, p)

Rule(rule, toks, p) ==
    CASE rule = "statement" -> ParseStatement(toks, p)
      [] rule = "expression" -> ParseExpression(toks, p)
      [] rule = "boolean" -> ParseBoolean(toks, p)
      [] rule = "comparison" -> ParseComparison(toks, p)
      [] rule = "bitwiseexpr" -> ParseBitwiseexpr(toks, p)
      [] rule = "addsub" -> ParseAddsub(toks, p)
      [] rule = "muldiv" -> ParseMuldiv(toks, p)
      [] rule = "parens" -> ParseParens(toks, p)
      [] rule = "literal" -> ParseLiteral(toks, p)
      [] rule = "list" -> ParseList(toks, p)

\* (statement/a)*
StartLoop(toks, p, a) ==
    LET Round(s) ==
            IF s.st = "raise" THEN s
            ELSE IF s.st = "wrong" THEN POk(a, p)
            ELSE StartLoop(toks, s.p, s.a)
    IN  Round(Rule("statement", toks, p))

\* START/a -> (statement/a)*
START(toks) ==
    LET Return(r) ==
            IF r.st = "raise" THEN r
            ELSE IF r.a.op = Unbound.op THEN PRaise("UnboundLocalError")
            ELSE r
    IN  Return(StartLoop(toks, 1, Unbound))

\* parse(code): START, then the whole input must have been read
Parse(toks) ==
    LET AtEnd(r) ==
            IF r.st = "ok" /\ r.p <= Len(toks) THEN PRaise("tpg.SyntacticError") ELSE r
    IN  AtEnd(START(toks))


(***************************************************************************)
(* Evaluation.  An evaluation reads global_scope and heap and may add list *)
(* objects to heap; it gives [exc, val, heap]: the exception raised        *)
(* ("none" when it returns), the value returned and the heap afterwards.   *)
(***************************************************************************)

NoneVal == [k |-> "None"]

EOk(v, h) == [exc |-> "none", val |-> v, heap |-> h]

ERaise(e, h) == [exc |-> e, val |-> NoneVal, heap |-> h]

\* a new list object with the given items
NewList(items, h) == EOk(RefVal(Len(h) + 1), Append(h, items))

NatXor(x, y) ==
    LET n == IF Len(x) > Len(y) THEN Len(x) ELSE Len(y)
    IN  Norm([i \in 1..n |-> (Bit(x, i) + Bit(y, i)) % 2])

\* left ^ right on two ints (a negative int is the complement of -n - 1)
IntXor(a, b) ==
    LET comp(v) == IF v.s = 1 THEN v.m ELSE NatSub(v.m, <<1>>)
        x == NatXor(comp(a), comp(b))
    IN  IF a.s = b.s THEN IntVal(1, x) ELSE IntVal(-1, NatAdd(x, <<1>>))

\* value == n, n a TLA+ integer: false for a value that is not an int
PyEq(v, n) == IsInt(v) /\ IntEq(v, I(n))

\* seq[index] for an int index: the position in 1..Len(seq) that Python reads
\* (a negative index counts from the end), 0 when it raises IndexError
PyPosition(index, n) ==
    IF IntLess(index, I(n)) /\ ~IntLess(index, I(-n))
    THEN IF index.s = 1 THEN IntToTLA(index) + 1 ELSE n + IntToTLA(index) + 1
    ELSE 0

RECURSIVE depth(_, _, _), DepthMax(_, _, _, _, _)

\* max(depth(item) for item in l), the items taken in order from position i on;
\* best is the maximum so far
DepthMax(items, i, h, path, best) ==
    IF i > Len(items) THEN [exc |-> "none", d |-> best]
    ELSE LET r == depth(items[i], h, path)
         IN  IF r.exc # "none" THEN r
             ELSE DepthMax(items, i + 1, h, path, IF r.d > best THEN r.d ELSE best)

\* depth(l); path is the set of lists the recursion is inside of: a list that
\* holds itself recurses until Python raises RecursionError, and max() of no
\* items raises ValueError
depth(l, h, path) ==
    IF ~IsList(l) THEN [exc |-> "none", d |-> 0]
    ELSE IF l.v \in path THEN [exc |-> "RecursionError", d |-> 0]
    ELSE IF h[l.v] = <<>> THEN [exc |-> "ValueError", d |-> 0]
    ELSE LET r == DepthMax(h[l.v], 1, h, path \cup {l.v}, 0)
         IN  IF r.exc # "none" THEN r ELSE [exc |-> "none", d |-> 1 + r.d]

\* left + right as Python adds two values when nothing tests their kinds first:
\* two lists are concatenated into a new list, an int and a str raise TypeError
EvalAddUnchecked(left, right, h) ==
    IF IsInt(left) /\ IsInt(right) THEN EOk(IntAdd(left, right), h)
    ELSE IF IsStr(left) /\ IsStr(right) THEN EOk(StrVal(left.v \o right.v), h)
    ELSE IF IsList(left) /\ IsList(right) THEN NewList(h[left.v] \o h[right.v], h)
    ELSE ERaise("TypeError", h)

\* Add.evaluate, its operands evaluated
EvalAdd(left, right, h) ==
    IF ~((IsInt(left) /\ IsInt(right)) \/ (IsStr(left) /\ IsStr(right)))
    THEN ERaise("SemanticError", h)
    ELSE IF IsInt(left) THEN EOk(IntAdd(left, right), h)
    ELSE EOk(StrVal(left.v \o right.v), h)

EvalSubtract(left, right, h) ==
    IF ~IsInt(left) \/ ~IsInt(right) THEN ERaise("SemanticError", h)
    ELSE EOk(IntSub(left, right), h)

EvalMultiply(left, right, h) ==
    IF ~IsInt(left) \/ ~IsInt(right) THEN ERaise("SemanticError", h)
    ELSE EOk(IntMul(left, right), h)

EvalDivide(left, right, h) ==
    IF ~IsInt(left) \/ ~IsInt(right) THEN ERaise("SemanticError", h)
    ELSE IF PyEq(right, 0) THEN ERaise("SemanticError", h)
    ELSE LET Result(q) == IF q.exc # "none" THEN ERaise(q.exc, h) ELSE EOk(q.val, h)
         IN  Result(TrueDivTrunc(left, right))

EvalAnd(left, right, h) ==
    IF ~IsInt(left) \/ ~IsInt(right) THEN ERaise("SemanticError", h)
    ELSE IF PyEq(left, 0) \/ PyEq(right, 0) THEN EOk(I(0), h)
    ELSE EOk(I(1), h)

EvalOr(left, right, h) ==
    IF ~IsInt(left) \/ ~IsInt(right) THEN ERaise("SemanticError", h)
    ELSE IF PyEq(left, 0) /\ PyEq(right, 0) THEN EOk(I(0), h)
    ELSE EOk(I(1), h)

EvalXor(left, right, h) ==
    IF ~IsInt(left) \/ ~IsInt(right) THEN ERaise("SemanticError", h)
    ELSE EOk(IntXor(left, right), h)

EvalLessThan(left, right, h) ==
    IF ~IsInt(left) \/ ~IsInt(right) THEN ERaise("SemanticError", h)
    ELSE IF IntLess(left, right) THEN EOk(I(1), h)
    ELSE EOk(I(0), h)

EvalGreaterThan(left, right, h) ==
    IF ~IsInt(left) \/ ~IsInt(right) THEN ERaise("SemanticError", h)
    ELSE IF IntLess(right, left) THEN EOk(I(1), h)
    ELSE EOk(I(0), h)

EvalIsEqual(left, right, h) ==
    IF ~IsInt(left) \/ ~IsInt(right) THEN ERaise("SemanticError", h)
    ELSE IF IntEq(left, right) THEN EOk(I(1), h)
    ELSE EOk(I(0), h)

EvalNot(operand, h) ==
    IF ~IsInt(operand) THEN ERaise("SemanticError", h)
    ELSE IF PyEq(operand, 0) THEN EOk(I(1), h)
    ELSE EOk(I(0), h)

\* value[index] as Python reads it: an item of a list, a character of a str;
\* an int has no items
PySubscript(value, index, h) ==
    IF IsInt(value) THEN ERaise("TypeError", h)
    ELSE IF ~IsInt(index) THEN ERaise("TypeError", h)
    ELSE LET items == IF IsList(value) THEN h[value.v] ELSE value.v
             pos   == PyPosition(index, Len(items))
         IN  IF pos = 0 THEN ERaise("IndexError", h)
             ELSE IF IsList(value) THEN EOk(items[pos], h)
             ELSE EOk(StrVal(<<items[pos]>>), h)

EvalStringIndex(string, index, h) ==
    IF ~IsInt(index) THEN ERaise("SemanticError", h)
    ELSE PySubscript(string, index, h)

EvalListIndex(my_list, index, h) ==
    IF ~IsInt(index) THEN ERaise("SemanticError", h)
    ELSE PySubscript(my_list, index, h)

EvalVarIndex(var, index, h) ==
    IF ~IsList(var) THEN ERaise("SemanticError", h)
    ELSE IF ~IsInt(index) THEN ERaise("SemanticError", h)
    ELSE IF ~IntLess(index, I(Len(h[var.v]))) THEN ERaise("SemanticError", h)
    ELSE PySubscript(var, index, h)

\* MakeList.evaluate, its elements evaluated
EvalMakeList(element1, element2, h) ==
    LET Compared(d1, d2) ==
            IF d1.exc # "none" THEN ERaise(d1.exc, h)
            ELSE IF d2.exc # "none" THEN ERaise(d2.exc, h)
            ELSE IF d1.d > d2.d THEN NewList(Append(h[element1.v], element2), h)
            ELSE NewList(<<element1, element2>>, h)
    IN  Compared(depth(element1, h, {}), depth(element2, h, {}))

EvalBinary(op, left, right, h) ==
    CASE op = "Add" -> EvalAdd(left, right, h)
      [] op = "Subtract" -> EvalSubtract(left, right, h)
      [] op = "Multiply" -> EvalMultiply(left, right, h)
      [] op = "Divide" -> EvalDivide(left, right, h)
      [] op = "And" -> EvalAnd(left, right, h)
      [] op = "Or" -> EvalOr(left, right, h)
      [] op = "Xor" -> EvalXor(left, right, h)
      [] op = "LessThan" -> EvalLessThan(left, right, h)
      [] op = "GreaterThan" -> EvalGreaterThan(left, right, h)
      [] op = "IsEqual" -> EvalIsEqual(left, right, h)
      [] op = "StringIndex" -> EvalStringIndex(left, right, h)
      [] op = "ListIndex" -> EvalListIndex(left, right, h)
      [] op = "VarIndex" -> EvalVarIndex(left, right, h)
      [] op = "MakeList" -> EvalMakeList(left, right, h)

\* the two children of a node with two, in the order evaluate() evaluates them
Children(e) ==
    CASE e.op = "StringIndex" -> <<e.string, e.index>>
      [] e.op = "ListIndex" -> <<e.list, e.index>>
      [] e.op = "VarIndex" -> <<e.var, e.index>>
      [] e.op = "MakeList" -> <<e.element1, e.element2>>
      [] OTHER -> <<e.left, e.right>>

\* node.evaluate() for an expression node
RECURSIVE Evaluate(_, _, _)
Evaluate(e, scope, h) ==
    CASE e.op = "IntLiteral" -> EOk(e.value, h)
      [] e.op = "StringLiteral" -> EOk(StrVal(e.value), h)
      [] e.op = "Variable" ->
            IF e.name \notin DOMAIN scope THEN ERaise("SemanticError", h)
            ELSE EOk(scope[e.name], h)
      [] e.op = "MakeEmptyList" -> NewList(<<>>, h)
      [] e.op = "MakeSingleElementList" ->
            LET r == Evaluate(e.element, scope, h)
            IN  IF r.exc # "none" THEN r ELSE NewList(<<r.val>>, r.heap)
      [] e.op = "Not" ->
            LET r == Evaluate(e.operand, scope, h)
            IN  IF r.exc # "none" THEN r ELSE EvalNot(r.val, r.heap)
      [] OTHER ->
            LET l == Evaluate(Children(e)[1], scope, h)
            IN  IF l.exc # "none" THEN l
                ELSE LET r == Evaluate(Children(e)[2], scope, l.heap)
                     IN  IF r.exc # "none" THEN r
                         ELSE EvalBinary(e.op, l.val, r.val, r.heap)

(***************************************************************************)
(* node.location(): [exc, loc, heap].  The location of a Variable is its   *)
(* name, [k |-> "name", v]; that of a VarIndex is the pair of its          *)
(* variable's location and its evaluated index, [k |-> "tuple", var,       *)
(* index]; every other node inherits Node.location, which raises           *)
(* Exception.                                                              *)
(***************************************************************************)
RECURSIVE Location(_, _, _)
Location(e, scope, h) ==
    CASE e.op = "Variable" ->
            [exc |-> "none", loc |-> [k |-> "name", v |-> e.name], heap |-> h]
      [] e.op = "VarIndex" ->
            LET v == Location(e.var, scope, h)
            IN  IF v.exc # "none" THEN v
                ELSE LET Pair(i) ==
                             IF i.exc # "none"
                             THEN [exc |-> i.exc, loc |-> NoneVal, heap |-> i.heap]
                             ELSE [exc |-> "none",
                                   loc |-> [k |-> "tuple", var |-> v.loc, index |-> i.val],
                                   heap |-> i.heap]
                     IN  Pair(Evaluate(e.index, scope, v.heap))
      [] OTHER -> [exc |-> "Exception", loc |-> NoneVal, heap |-> h]

\* a tuple with a list in it cannot be hashed, so cannot be a dict key
RECURSIVE Hashable(_)
Hashable(loc) ==
    loc.k = "name" \/ (~IsList(loc.index) /\ Hashable(loc.var))

\* repr(value) as print shows it: an int or a str as it is, a list as the
\* sequence of its items' representations, and a list met inside itself as [...]
RECURSIVE Repr(_, _, _)
Repr(v, h, path) ==
    IF ~IsList(v) THEN v
    ELSE IF v.v \in path THEN [k |-> "[...]"]
    ELSE [k |-> "list",
          v |-> [i \in 1..Len(h[v.v]) |-> Repr(h[v.v][i], h, path \cup {v.v})]]


(***************************************************************************)
(* Statements.  execute() of a statement node is one step of the machine;  *)
(* stack holds the statements still to execute, the next one first: the    *)
(* calls of execute() that Python has pending.                             *)
(***************************************************************************)

\* d[key] = value on a dict held as a function
DictSet(d, key, value) ==
    [n \in DOMAIN d \cup {key} |-> IF n = key THEN value ELSE d[n]]

\* Assign.execute gives [exc, scope, heap].
\* For a VarIndex on the left: loc = self.left.location(), then
\* global_scope[loc[0]][loc[1]] = self.right.evaluate().  Python evaluates the
\* right side, then looks loc[0] up in global_scope, then stores at loc[1].
AssignCell(s, scope, h) ==
    LET StoreCell(l, r) ==
            LET var   == l.loc.var
                index == l.loc.index
                fail(e) == [exc |-> e, scope |-> scope, heap |-> r.heap]
            IN  IF r.exc # "none" THEN fail(r.exc)
                ELSE IF ~Hashable(var) THEN fail("TypeError")
                ELSE IF var.k # "name" THEN fail("KeyError")
                ELSE IF var.v \notin DOMAIN scope THEN fail("KeyError")
                ELSE IF ~IsList(scope[var.v]) THEN fail("TypeError")
                ELSE IF ~IsInt(index) THEN fail("TypeError")
                ELSE LET target == scope[var.v].v
                         pos    == PyPosition(index, Len(r.heap[target]))
                     IN  IF pos = 0 THEN fail("IndexError")
                         ELSE [exc |-> "none", scope |-> scope,
                               heap |-> [r.heap EXCEPT ![target][pos] = r.val]]
        CellOf(l) ==
            IF l.exc # "none" THEN [exc |-> l.exc, scope |-> scope, heap |-> l.heap]
            ELSE StoreCell(l, Evaluate(s.right, scope, l.heap))
    IN  CellOf(Location(s.left, scope, h))

\* the assignment a faulting right side binds all the same: the left side's
\* location is taken first and the name is bound to whatever evaluate() left
AssignNameUnguarded(s, scope, h) ==
    LET StoreName(l, r) ==
            IF l.exc # "none" THEN [exc |-> l.exc, scope |-> scope, heap |-> r.heap]
            ELSE [exc |-> r.exc, scope |-> DictSet(scope, l.loc.v, r.val),
                  heap |-> r.heap]
    IN  StoreName(Location(s.left, scope, h), Evaluate(s.right, scope, h))

\* Otherwise: global_scope[self.left.location()] = self.right.evaluate().
\* Python evaluates the right side, then the location, then stores.
AssignName(s, scope, h) ==
    LET StoreName(r, l) ==
            IF l.exc # "none" THEN [exc |-> l.exc, scope |-> scope, heap |-> l.heap]
            ELSE [exc |-> "none", scope |-> DictSet(scope, l.loc.v, r.val),
                  heap |-> l.heap]
        NameOf(r) ==
            IF r.exc # "none" THEN [exc |-> r.exc, scope |-> scope, heap |-> r.heap]
            ELSE StoreName(r, Location(s.left, scope, r.heap))
    IN  NameOf(Evaluate(s.right, scope, h))

AssignExecute(s, scope, h) ==
    IF s.left.op = "VarIndex" THEN AssignCell(s, scope, h) ELSE AssignName(s, scope, h)

\* a statement is being executed
Running == pc = "execute" /\ stack # <<>>

Top == Head(stack)

\* an exception leaves every pending execute() and reaches the driver's try
Raise(e) == pc' = "except" /\ exc' = e /\ stack' = <<>>

ExecAssign ==
    /\ Running /\ Top.op = "Assign"
    /\ LET Done(r) ==
               /\ heap' = r.heap
               /\ global_scope' = r.scope
               /\ IF r.exc # "none" THEN Raise(r.exc)
                  ELSE stack' = Tail(stack) /\ UNCHANGED <<pc, exc>>
       IN  Done(AssignExecute(Top, global_scope, heap))
    /\ UNCHANGED <<code, node, function_name_to_body, stdout, escaped>>

\* Block.evaluate: statement1, then statement2
ExecBlock ==
    /\ Running /\ Top.op = "Block"
    /\ stack' = <<Top.statement1, Top.statement2>> \o Tail(stack)
    /\ UNCHANGED <<pc, code, node, global_scope, heap, function_name_to_body,
                   stdout, exc, escaped>>

\* Print.execute: print(repr(self.expression.evaluate()))
ExecPrint ==
    /\ Running /\ Top.op = "Print"
    /\ LET Done(r) ==
               /\ heap' = r.heap
               /\ IF r.exc # "none" THEN Raise(r.exc) /\ UNCHANGED stdout
                  ELSE /\ stdout' = Append(stdout, Repr(r.val, r.heap, {}))
                       /\ stack' = Tail(stack)
                       /\ UNCHANGED <<pc, exc>>
       IN  Done(Evaluate(Top.expression, global_scope, heap))
    /\ UNCHANGED <<code, node, global_scope, function_name_to_body, escaped>>

\* If.evaluate
ExecIf ==
    /\ Running /\ Top.op = "If"
    /\ LET Done(r) ==
               /\ heap' = r.heap
               /\ IF r.exc # "none" THEN Raise(r.exc)
                  ELSE /\ stack' = IF PyEq(r.val, 0) THEN Tail(stack)
                                   ELSE <<Top.statement>> \o Tail(stack)
                       /\ UNCHANGED <<pc, exc>>
       IN  Done(Evaluate(Top.expression, global_scope, heap))
    /\ UNCHANGED <<code, node, global_scope, function_name_to_body, stdout, escaped>>

\* IfElse.evaluate
ExecIfElse ==
    /\ Running /\ Top.op = "IfElse"
    /\ LET Done(r) ==
               /\ heap' = r.heap
               /\ IF r.exc # "none" THEN Raise(r.exc)
                  ELSE /\ stack' = IF PyEq(r.val, 1) THEN <<Top.if_body>> \o Tail(stack)
                                   ELSE <<Top.else_body>> \o Tail(stack)
                       /\ UNCHANGED <<pc, exc>>
       IN  Done(Evaluate(Top.condition, global_scope, heap))
    /\ UNCHANGED <<code, node, global_scope, function_name_to_body, stdout, escaped>>

\* a loop written with "if" for "while": the body runs once and the loop is left
ExecWhileOnce ==
    /\ Running /\ Top.op = "While"
    /\ LET Done(r) ==
               /\ heap' = r.heap
               /\ IF r.exc # "none" THEN Raise(r.exc)
                  ELSE /\ stack' = IF ~PyEq(r.val, 0) THEN <<Top.statement>> \o Tail(stack)
                                   ELSE Tail(stack)
                       /\ UNCHANGED <<pc, exc>>
       IN  Done(Evaluate(Top.expression, global_scope, heap))
    /\ UNCHANGED <<code, node, global_scope, function_name_to_body, stdout, escaped>>

\* While.evaluate: one evaluation of the condition; the body, then the loop again
ExecWhile ==
    /\ Running /\ Top.op = "While"
    /\ LET Done(r) ==
               /\ heap' = r.heap
               /\ IF r.exc # "none" THEN Raise(r.exc)
                  ELSE /\ stack' = IF ~PyEq(r.val, 0) THEN <<Top.statement>> \o stack
                                   ELSE Tail(stack)
                       /\ UNCHANGED <<pc, exc>>
       IN  Done(Evaluate(Top.expression, global_scope, heap))
    /\ UNCHANGED <<code, node, global_scope, function_name_to_body, stdout, escaped>>

\* a line print() writes that is not the repr of a value
Line(text) == [k |-> "line", v |-> text]

\* FunctionBody.evaluate: the body is stored under the name's location, looked
\* up again under it and executed
ExecFunctionBody ==
    /\ Running /\ Top.op = "FunctionBody"
    /\ stdout' = Append(stdout, Line("In the FunctionBody node"))
    /\ LET Call(l, m) ==
               /\ function_name_to_body' =
                      SelectSeq(function_name_to_body, LAMBDA e : e.key # l.loc)
                      \o <<[key |-> l.loc, body |-> Top.body]>>
               /\ heap' = m.heap
               /\ stack' = <<Top.body>> \o Tail(stack)
               /\ UNCHANGED <<pc, exc>>
           Store(l) ==
               IF l.exc # "none"
               THEN Raise(l.exc) /\ heap' = l.heap /\ UNCHANGED function_name_to_body
               ELSE IF ~Hashable(l.loc)
               THEN Raise("TypeError") /\ heap' = l.heap /\ UNCHANGED function_name_to_body
               ELSE Call(l, Location(Top.name, global_scope, l.heap))
       IN  Store(Location(Top.name, global_scope, heap))
    /\ UNCHANGED <<code, node, global_scope, escaped>>

(***************************************************************************)
(* The driver: main.py lines 89 to 107.                                    *)
(***************************************************************************)

\* the names nodes.py binds, which "from nodes import *" brings into main.py
NodesNames ==
    {"global_scope", "function_name_to_body", "SemanticError", "Node", "IntLiteral",
     "StringLiteral", "Add", "And", "Assign", "Block", "Divide", "GreaterThan", "If",
     "IsEqual", "LessThan", "ListIndex", "MakeEmptyList", "MakeList",
     "MakeSingleElementList", "Multiply", "Not", "Or", "Print", "StringIndex",
     "Subtract", "Variable", "VarIndex", "While", "Xor", "FunctionBody", "IfElse",
     "depth"}

\* the names bound in main.py when the try statement runs
MainNames == {"sys", "tpg", "Parser", "parse", "f", "code", "node"} \cup NodesNames

\* the except clauses in order: the names the clause's expression reads, the
\* exception classes it names, and the line its body prints
ExceptClauses ==
    << [reads |-> {"tpg", "MySyntaxError"}, classes |-> {"tpg.Error", "MySyntaxError"},
        prints |-> "SYNTAX ERROR"],
       [reads |-> {"SemanticError"}, classes |-> {"SemanticError"},
        prints |-> "SEMANTIC ERROR"] >>

\* the classes an exception of class e is an instance of
Bases(e) == IF e = "tpg.SyntacticError" THEN {e, "tpg.Error"} ELSE {e}

\* what the try statement does with exception e, from clause i on:
\* [escaped: the exception that leaves it or "none", prints: the lines printed]
RECURSIVE Handle(_, _)
Handle(e, i) ==
    IF i > Len(ExceptClauses) THEN [escaped |-> e, prints |-> <<>>]
    ELSE IF ~(ExceptClauses[i].reads \subseteq MainNames)
    THEN [escaped |-> "NameError", prints |-> <<>>]
    ELSE IF Bases(e) \cap ExceptClauses[i].classes # {}
    THEN [escaped |-> "none", prints |-> <<Line(ExceptClauses[i].prints)>>]
    ELSE Handle(e, i + 1)

\* node = parse(code)
DriverParse ==
    /\ pc = "parse"
    /\ LET Done(r) ==
               IF r.st = "ok"
               THEN node' = r.a /\ pc' = "repr" /\ UNCHANGED exc
               ELSE exc' = r.exc /\ pc' = "except" /\ UNCHANGED node
       IN  Done(Parse(code))
    /\ UNCHANGED <<code, stack, global_scope, heap, function_name_to_body, stdout,
                   escaped>>

\* print(repr(node)): the default representation of an object, which names
\* its class; then node.execute() is called
DriverRepr ==
    /\ pc = "repr"
    /\ stdout' = Append(stdout, [k |-> "object", v |-> node.op])
    /\ stack' = <<node>>
    /\ pc' = "execute"
    /\ UNCHANGED <<code, node, global_scope, heap, function_name_to_body, exc, escaped>>

\* node.execute() has returned
DriverExecuted ==
    /\ pc = "execute" /\ stack = <<>>
    /\ pc' = "close"
    /\ UNCHANGED <<code, node, stack, global_scope, heap, function_name_to_body,
                   stdout, exc, escaped>>

\* the except clauses
DriverExcept ==
    /\ pc = "except"
    /\ LET h == Handle(exc, 1)
       IN  /\ stdout' = stdout \o h.prints
           /\ escaped' = h.escaped
           /\ pc' = IF h.escaped = "none" THEN "close" ELSE "exit"
    /\ UNCHANGED <<code, node, stack, global_scope, heap, function_name_to_body, exc>>

\* f.close()
DriverClose ==
    /\ pc = "close"
    /\ pc' = "exit"
    /\ UNCHANGED <<code, node, stack, global_scope, heap, function_name_to_body,
                   stdout, exc, escaped>>


(***************************************************************************)
(* Program texts, as the token sequences the lexer makes of them.          *)
(***************************************************************************)

\* an inline token such as "print" or "{"
K(lexeme) == [t |-> lexeme, v |-> <<>>]

\* an integer literal with the given decimal digits
IntTok(digits) == [t |-> "int", v |-> [i \in 1..Len(digits) |-> DigitChars[digits[i] + 1]]]

\* a string literal: the characters between double quotes
StrTok(chars) == [t |-> "str", v |-> <<"\"">> \o chars \o <<"\"">>]

VarTok(name) == [t |-> "variable", v |-> <<name>>]

\* the decimal digits of a natural number
RECURSIVE Digits(_)
Digits(n) == IF n < 10 THEN <<n>> ELSE Digits(n \div 10) \o <<n % 10>>

\* an expression whose value is the integer n: a literal, or (0 - literal)
IntExpr(n) ==
    IF n >= 0 THEN <<IntTok(Digits(n))>>
    ELSE <<K("("), IntTok(<<0>>), K("-"), IntTok(Digits(-n)), K(")")>>

\* print ( e ) ;
PrintOf(e) == <<K("print"), K("(")>> \o e \o <<K(")"), K(";")>>

\* name = e ;
AssignOf(name, e) == <<VarTok(name), K("=")>> \o e \o <<K(";")>>

\* { statements }
Braces(statements) == <<K("{")>> \o statements \o <<K("}")>>

\* a list literal of the given element expressions
RECURSIVE Commas(_)
Commas(es) ==
    IF es = <<>> THEN <<>>
    ELSE IF Len(es) = 1 THEN es[1]
    ELSE es[1] \o <<K(",")>> \o Commas(Tail(es))

ListOf(es) == <<K("[")>> \o Commas(es) \o <<K("]")>>


\* source terms for literal values: an integer n, a string of characters, a
\* list literal of terms
SrcInt(n) == [k |-> "int", n |-> n]

SrcStr(chars) == [k |-> "str", v |-> chars]

SrcList(items) == [k |-> "list", v |-> items]

\* the text of a source term
RECURSIVE Render(_)
Render(src) ==
    CASE src.k = "int" -> IntExpr(src.n)
      [] src.k = "str" -> <<StrTok(src.v)>>
      [] OTHER -> ListOf([i \in 1..Len(src.v) |-> Render(src.v[i])])

(***************************************************************************)
(* Bounds of the programs that are run.                                    *)
(***************************************************************************)

\* while loops run 0..MaxIter rounds
MaxIter == 3

\* conditions take the values -MaxCond..MaxCond
MaxCond == 2

\* indexes into a three-element list take the values -MaxIndex..MaxIndex
MaxIndex == 4

\* operands of a division take the values -MaxOperand..MaxOperand
MaxOperand == 7

\* list literals have 0..MaxListLen elements
MaxListLen == 3

\* the elements list literals are made of
Elems == <<SrcInt(1), SrcInt(2), SrcInt(3), SrcList(<<SrcInt(1)>>),
           SrcStr(<<"a">>), SrcList(<<>>)>>

\* the operands additions are made of
Operands == <<SrcInt(0), SrcInt(2), SrcInt(-3), SrcStr(<<>>), SrcStr(<<"a">>),
              SrcStr(<<"c", "d">>), SrcList(<<>>), SrcList(<<SrcInt(1)>>)>>

\* integer literals beyond the integers a double holds exactly:
\* 1, 2^31, 2^53, 2^53 + 1, 3 * 2^53 - 1, 2^63 - 1
BigLiterals ==
    << <<1>>,
       <<2, 1, 4, 7, 4, 8, 3, 6, 4, 8>>,
       <<9, 0, 0, 7, 1, 9, 9, 2, 5, 4, 7, 4, 0, 9, 9, 2>>,
       <<9, 0, 0, 7, 1, 9, 9, 2, 5, 4, 7, 4, 0, 9, 9, 3>>,
       <<2, 7, 0, 2, 1, 5, 9, 7, 7, 6, 4, 2, 2, 2, 9, 7, 5>>,
       <<9, 2, 2, 3, 3, 7, 2, 0, 3, 6, 8, 5, 4, 7, 7, 5, 8, 0, 7>> >>

(***************************************************************************)
(* The programs.                                                           *)
(***************************************************************************)

\* x = 5; y = 3; print(x + y);
SumStatements ==
    AssignOf("x", IntExpr(5)) \o AssignOf("y", IntExpr(3))
    \o PrintOf(<<VarTok("x"), K("+"), VarTok("y")>>)

\* x = ;
BadSyntaxProgram == <<VarTok("x"), K("="), K(";")>>

\* x = 1 + "a";
BadSemanticsProgram == AssignOf("x", IntExpr(1) \o <<K("+"), StrTok(<<"a">>)>>)

\* l = [1,2,3]; l[0] = 9; print(l);
ListCellStatements ==
    AssignOf("l", Render(SrcList(<<SrcInt(1), SrcInt(2), SrcInt(3)>>)))
    \o <<VarTok("l"), K("["), IntTok(<<0>>), K("]"), K("="), IntTok(<<9>>), K(";")>>
    \o PrintOf(<<VarTok("l")>>)

\* { l = [1,2,3]; l[i] = 9; print(l); }
CellProgram(i) ==
    Braces(AssignOf("l", Render(SrcList(<<SrcInt(1), SrcInt(2), SrcInt(3)>>)))
           \o <<VarTok("l"), K("[")>> \o IntExpr(i) \o <<K("]"), K("="), IntTok(<<9>>), K(";")>>
           \o PrintOf(<<VarTok("l")>>))

\* { a = [[1,2],[3,4]]; a[0][1] = 9; print(a); }
ChainedProgram ==
    Braces(AssignOf("a", Render(SrcList(<<SrcList(<<SrcInt(1), SrcInt(2)>>),
                                          SrcList(<<SrcInt(3), SrcInt(4)>>)>>)))
           \o <<VarTok("a"), K("["), IntTok(<<0>>), K("]"), K("["), IntTok(<<1>>), K("]"),
                K("="), IntTok(<<9>>), K(";")>>
           \o PrintOf(<<VarTok("a")>>))

\* { a = [1,2]; b = a; b[0] = 9; print(a); a[1] = a; print(a); c = [a, 1]; }
SharedProgram ==
    Braces(AssignOf("a", Render(SrcList(<<SrcInt(1), SrcInt(2)>>)))
           \o AssignOf("b", <<VarTok("a")>>)
           \o <<VarTok("b"), K("["), IntTok(<<0>>), K("]"), K("="), IntTok(<<9>>), K(";")>>
           \o PrintOf(<<VarTok("a")>>)
           \o <<VarTok("a"), K("["), IntTok(<<1>>), K("]"), K("="), VarTok("a"), K(";")>>
           \o PrintOf(<<VarTok("a")>>)
           \o AssignOf("c", ListOf(<<<<VarTok("a")>>, IntExpr(1)>>)))

\* assignments whose target is no list cell:
\* { s = "ab"; s[0] = 1; }   { n = 5; n[0] = 1; }   u[0] = 1;   5 = 3;
\* { l = [1]; l["a"] = 1; }   { l = [1]; l[[0]][0] = 1; }
BadTargetPrograms ==
    << Braces(AssignOf("s", <<StrTok(<<"a", "b">>)>>)
              \o <<VarTok("s"), K("["), IntTok(<<0>>), K("]"), K("="), IntTok(<<1>>), K(";")>>),
       Braces(AssignOf("n", IntExpr(5))
              \o <<VarTok("n"), K("["), IntTok(<<0>>), K("]"), K("="), IntTok(<<1>>), K(";")>>),
       <<VarTok("u"), K("["), IntTok(<<0>>), K("]"), K("="), IntTok(<<1>>), K(";")>>,
       <<IntTok(<<5>>), K("="), IntTok(<<3>>), K(";")>>,
       Braces(AssignOf("l", ListOf(<<IntExpr(1)>>))
              \o <<VarTok("l"), K("["), StrTok(<<"a">>), K("]"), K("="), IntTok(<<1>>), K(";")>>),
       Braces(AssignOf("l", ListOf(<<IntExpr(1)>>))
              \o <<VarTok("l"), K("["), K("["), IntTok(<<0>>), K("]"), K("]"),
                   K("["), IntTok(<<0>>), K("]"), K("="), IntTok(<<1>>), K(";")>>) >>

\* print([e1, ..., en]); for the elements Elems[f[1]], ..., Elems[f[n]]
ListSource(f) == SrcList([i \in 1..Len(f) |-> Elems[f[i]]])

ListProgram(f) == PrintOf(Render(ListSource(f)))

\* if (c) print(1);
IfProgram(c) ==
    <<K("if"), K("(")>> \o IntExpr(c) \o <<K(")")>> \o PrintOf(IntExpr(1))

\* if (c) print(1); else print(0);
IfElseProgram(c) ==
    <<K("if"), K("(")>> \o IntExpr(c) \o <<K(")")>> \o PrintOf(IntExpr(1))
    \o <<K("else")>> \o PrintOf(IntExpr(0))

\* { i = 0; while (i < n) { print(i); i = i + 1; } }
WhileProgram(n) ==
    Braces(AssignOf("i", IntExpr(0))
           \o <<K("while"), K("("), VarTok("i"), K("<")>> \o IntExpr(n) \o <<K(")")>>
           \o Braces(PrintOf(<<VarTok("i")>>)
                     \o AssignOf("i", <<VarTok("i"), K("+"), IntTok(<<1>>)>>)))

\* { i = n; while (i) { print(i); i = i - 1; } } for n >= 0, and with i = i + 1
\* for n < 0: the condition takes the values n, ..., down or up to 0
CountProgram(n) ==
    Braces(AssignOf("i", IntExpr(n))
           \o <<K("while"), K("("), VarTok("i"), K(")")>>
           \o Braces(PrintOf(<<VarTok("i")>>)
                     \o AssignOf("i", <<VarTok("i"), K(IF n < 0 THEN "+" ELSE "-"),
                                        IntTok(<<1>>)>>)))

\* { l = [1,2,3]; print(l[i]); }
IndexProgram(i) ==
    Braces(AssignOf("l", Render(SrcList(<<SrcInt(1), SrcInt(2), SrcInt(3)>>)))
           \o PrintOf(<<VarTok("l"), K("[")>> \o IntExpr(i) \o <<K("]")>>))

\* { v = e; print(v[i]); } for a term e and an index term i
IndexOfProgram(e, i) ==
    Braces(AssignOf("v", Render(e))
           \o PrintOf(<<VarTok("v"), K("[")>> \o Render(i) \o <<K("]")>>))

\* print(a / b);
DivideProgram(a, b) == PrintOf(IntExpr(a) \o <<K("/")>> \o IntExpr(b))

\* print(a / b); for two integer literals given by their digits
DivideBigProgram(a, b) == PrintOf(<<IntTok(a), K("/"), IntTok(b)>>)

\* print(a / b); for two terms
DivideOfProgram(a, b) == PrintOf(Render(a) \o <<K("/")>> \o Render(b))

\* print(a + b); for two terms
AddProgram(a, b) == PrintOf(Render(a) \o <<K("+")>> \o Render(b))

\* statement i of a block is one that raises:
\* y = z;   y = 1 / 0;   y = 1 + "a";   l[5] = 1;   y = [[], 1];
Faulty ==
    << AssignOf("y", <<VarTok("z")>>),
       AssignOf("y", IntExpr(1) \o <<K("/")>> \o IntExpr(0)),
       AssignOf("y", IntExpr(1) \o <<K("+"), StrTok(<<"a">>)>>),
       <<VarTok("l"), K("["), IntTok(<<5>>), K("]"), K("="), IntTok(<<1>>), K(";")>>,
       AssignOf("y", Render(SrcList(<<SrcList(<<>>), SrcInt(1)>>))),
       PrintOf(<<VarTok("z")>>),
       <<K("if"), K("("), VarTok("z"), K(")")>> \o AssignOf("y", IntExpr(1)) >>

\* { x = 1; l = [1]; <faulty>; x = 2; l[0] = 2; print(x); }
FaultInBlock(i) ==
    Braces(AssignOf("x", IntExpr(1)) \o AssignOf("l", ListOf(<<IntExpr(1)>>))
           \o Faulty[i]
           \o AssignOf("x", IntExpr(2))
           \o <<VarTok("l"), K("["), IntTok(<<0>>), K("]"), K("="), IntTok(<<2>>), K(";")>>
           \o PrintOf(<<VarTok("x")>>))

\* { i = 0; l = [1]; while (i < 3) { i = i + 1; if (i == 2) { <faulty> } print(i); } x = 9; }
FaultInLoop(i) ==
    Braces(AssignOf("i", IntExpr(0)) \o AssignOf("l", ListOf(<<IntExpr(1)>>))
           \o <<K("while"), K("("), VarTok("i"), K("<"), IntTok(<<3>>), K(")")>>
           \o Braces(AssignOf("i", <<VarTok("i"), K("+"), IntTok(<<1>>)>>)
                     \o <<K("if"), K("("), VarTok("i"), K("=="), IntTok(<<2>>), K(")")>>
                     \o Braces(Faulty[i] \o AssignOf("x", IntExpr(7)))
                     \o PrintOf(<<VarTok("i")>>))
           \o AssignOf("x", IntExpr(9)))

\* programs that use the remaining constructs:
\* f(x) { print(1); }     f[0](x) print(1);      5(x) print(1);
\* print(not (1 and 0) or 2 xor (0-3) > 1 == 0 * 4 - 1);
\* print("abc"[1] + "abc"[0-1]);    print([1,[2]][1][0]);    print("abc"[3]);
\* {}     x = 1; y = ;     while (0) {}
OtherPrograms ==
    << <<VarTok("f"), K("("), VarTok("x"), K(")")>> \o Braces(PrintOf(IntExpr(1))),
       <<VarTok("f"), K("["), IntTok(<<0>>), K("]"), K("("), VarTok("x"), K(")")>>
           \o PrintOf(IntExpr(1)),
       <<IntTok(<<5>>), K("("), VarTok("x"), K(")")>> \o PrintOf(IntExpr(1)),
       PrintOf(<<K("not"), K("("), IntTok(<<1>>), K("and"), IntTok(<<0>>), K(")"), K("or"),
                 IntTok(<<2>>), K("xor")>> \o IntExpr(-3)
               \o <<K(">"), IntTok(<<1>>), K("=="), IntTok(<<0>>), K("*"), IntTok(<<4>>),
                    K("-"), IntTok(<<1>>)>>),
       PrintOf(<<StrTok(<<"a", "b", "c">>), K("["), IntTok(<<1>>), K("]"), K("+"),
                 StrTok(<<"a", "b", "c">>), K("[")>> \o IntExpr(-1) \o <<K("]")>>),
       PrintOf(Render(SrcList(<<SrcInt(1), SrcList(<<SrcInt(2)>>)>>))
               \o <<K("["), IntTok(<<1>>), K("]"), K("["), IntTok(<<0>>), K("]")>>),
       PrintOf(<<StrTok(<<"a", "b", "c">>), K("["), IntTok(<<3>>), K("]")>>),
       <<K("{"), K("}")>>,
       AssignOf("x", IntExpr(1)) \o <<VarTok("y"), K("="), K(";")>>,
       <<K("while"), K("("), IntTok(<<0>>), K(")"), K("{"), K("}")>> >>

\* the program that is run is one of these
InitCode ==
    \/ code = SumStatements
    \/ code = Braces(SumStatements)
    \/ code = BadSyntaxProgram
    \/ code = BadSemanticsProgram
    \/ code = ListCellStatements
    \/ code = ChainedProgram
    \/ code = SharedProgram
    \/ \E i \in 1..Len(BadTargetPrograms) : code = BadTargetPrograms[i]
    \/ \E i \in -MaxIndex..MaxIndex : code = CellProgram(i)
    \/ \E n \in 0..MaxListLen : \E f \in [1..n -> 1..Len(Elems)] : code = ListProgram(f)
    \/ \E v \in -MaxCond..MaxCond : code = IfProgram(v)
    \/ \E v \in -MaxCond..MaxCond : code = IfElseProgram(v)
    \/ \E n \in 0..MaxIter : code = WhileProgram(n)
    \/ \E n \in -MaxIter..MaxIter : code = CountProgram(n)
    \/ \E i \in -MaxIndex..MaxIndex : code = IndexProgram(i)
    \/ \E i, j \in 1..Len(Operands) : code = IndexOfProgram(Operands[i], Operands[j])
    \/ \E a, b \in -MaxOperand..MaxOperand : code = DivideProgram(a, b)
    \/ \E i, j \in 1..Len(BigLiterals) : code = DivideBigProgram(BigLiterals[i], BigLiterals[j])
    \/ \E i, j \in 1..Len(Operands) : code = DivideOfProgram(Operands[i], Operands[j])
    \/ \E i, j \in 1..Len(Operands) : code = AddProgram(Operands[i], Operands[j])
    \/ \E i \in 1..Len(Faulty) : code = FaultInBlock(i)
    \/ \E i \in 1..Len(Faulty) : code = FaultInLoop(i)
    \/ \E i \in 1..Len(OtherPrograms) : code = OtherPrograms[i]

(***************************************************************************)
(* The specification: main.py run on one program.                          *)
(***************************************************************************)

Init ==
    /\ InitCode
    /\ pc = "parse"
    /\ node = Unbound
    /\ stack = <<>>
    /\ global_scope = <<>>
    /\ heap = <<>>
    /\ function_name_to_body = <<>>
    /\ stdout = <<>>
    /\ exc = "none"
    /\ escaped = "none"

Next ==
    \/ DriverParse
    \/ DriverRepr
    \/ ExecAssign
    \/ ExecBlock
    \/ ExecPrint
    \/ ExecIf
    \/ ExecIfElse
    \/ ExecWhile
    \/ ExecFunctionBody
    \/ DriverExecuted
    \/ DriverExcept
    \/ DriverClose

Spec == Init /\ [][Next]_vars

(***************************************************************************)
(* What a run shows.                                                       *)
(***************************************************************************)

\* the run is over
Finished == pc = "exit"

\* the values the program's print statements wrote, in order
Printed == SelectSeq(stdout, LAMBDA e : e.k \notin {"object", "line"})

\* the diagnostics the driver wrote
Diagnostics ==
    SelectSeq(stdout, LAMBDA e : e.k = "line" /\ e.v \in {"SYNTAX ERROR", "SEMANTIC ERROR"})

\* the global environment, each name with the representation of its value
Env == [n \in DOMAIN global_scope |-> Repr(global_scope[n], heap, {})]

\* the value a source term denotes, as print shows it
RECURSIVE ValueOf(_)
ValueOf(src) ==
    CASE src.k = "int" -> I(src.n)
      [] src.k = "str" -> StrVal(src.v)
      [] OTHER -> [k |-> "list", v |-> [i \in 1..Len(src.v) |-> ValueOf(src.v[i])]]

\* a list value with the given items
ListValue(items) == [k |-> "list", v |-> items]

\* a / b truncated toward zero, b /= 0
TruncDiv(a, b) ==
    LET q == (IF a < 0 THEN -a ELSE a) \div (IF b < 0 THEN -b ELSE b)
    IN  IF (a < 0) = (b < 0) THEN q ELSE -q

(***************************************************************************)
(* The claims.                                                             *)
(***************************************************************************)

\* C1: a program of several top-level statements runs every one of them in the
\* written order against the one global environment:
\* x = 5; y = 3; print(x + y); prints 8 and ends normally.
C1_TopLevelStatementsRun ==
    (Finished /\ code = SumStatements) => (Printed = <<I(8)>> /\ escaped = "none")

\* C2: the driver answers every fault with its fixed diagnostic and ends
\* normally: a run that failed to parse has printed exactly SYNTAX ERROR, a run
\* that raised SemanticError has printed exactly SEMANTIC ERROR, and nothing
\* escaped the try statement.
C2_FaultsAreDiagnosed ==
    (Finished /\ exc # "none" /\ (node.op = Unbound.op \/ exc = "SemanticError")) =>
        /\ escaped = "none"
        /\ Diagnostics = <<Line(IF node.op = Unbound.op THEN "SYNTAX ERROR"
                                ELSE "SEMANTIC ERROR")>>

\* C3: Assign writes the right side's value to the cell its left side names and
\* to nothing else: l = [1,2,3]; l[0] = 9; print(l); prints [9,2,3], the same
\* inside braces for each cell i of l, and after a = [[1,2],[3,4]] the chained
\* a[0][1] = 9 leaves a as [[1,9],[3,4]].
C3_AssignWritesTheCell ==
    Finished =>
        /\ code = ListCellStatements => Printed = <<ListValue(<<I(9), I(2), I(3)>>)>>
        /\ \A i \in 0..2 :
              code = CellProgram(i) =>
                  /\ Printed = <<ListValue([j \in 1..3 |-> IF j = i + 1 THEN I(9) ELSE I(j)])>>
                  /\ DOMAIN global_scope = {"l"}
        /\ code = ChainedProgram =>
              Printed = <<ListValue(<<ListValue(<<I(1), I(9)>>),
                                      ListValue(<<I(3), I(4)>>)>>)>>

\* C4: a list literal of n element expressions evaluates to the sequence of its
\* n element values, each element one item: print([e1, ..., en]); prints the
\* list of the values of e1, ..., en, here for elements that are ints, strs
\* and lists with an item.
C4_ListLiteralKeepsElements ==
    Finished =>
        \A n \in 0..MaxListLen :
            \A f \in [1..n -> 1..Len(Elems)] :
                (/\ code = ListProgram(f)
                 /\ \A i \in 1..n : Elems[f[i]].k = "list" => Elems[f[i]].v # <<>>) =>
                    Printed = <<ValueOf(ListSource(f))>>

\* C5: If and IfElse branch on whether the condition is nonzero: for every c,
\* if (c) print(1); prints 1 exactly when c /= 0, and
\* if (c) print(1); else print(0); prints 1 when c /= 0 and 0 when c = 0.
C5_BranchOnNonzero ==
    Finished =>
        \A c \in -MaxCond..MaxCond :
            /\ code = IfProgram(c) => Printed = (IF c # 0 THEN <<I(1)>> ELSE <<>>)
            /\ code = IfElseProgram(c) => Printed = (IF c # 0 THEN <<I(1)>> ELSE <<I(0)>>)

\* C6: While evaluates its condition before every round, runs its body once for
\* each evaluation that is nonzero and stops at the first that is zero: with i
\* bound to 0, while (i < n) { print(i); i = i + 1; } prints 0, ..., n - 1 and
\* ends with i = n; with i bound to n, while (i) { print(i); i = i -+ 1; }
\* prints n, ..., down or up to but not 0, and ends with i = 0.
C6_WhileRunsWhileNonzero ==
    Finished =>
        /\ \A n \in 0..MaxIter :
              code = WhileProgram(n) =>
                  /\ Printed = [k \in 1..n |-> I(k - 1)]
                  /\ Env = [i |-> I(n)]
                  /\ escaped = "none"
        /\ \A n \in -MaxIter..MaxIter :
              code = CountProgram(n) =>
                  /\ Printed = [k \in 1..(IF n < 0 THEN -n ELSE n) |->
                                   I(IF n < 0 THEN n + k - 1 ELSE n - k + 1)]
                  /\ Env = [i |-> I(0)]
                  /\ escaped = "none"

\* the loop of MaxIter rounds has run to its end
C6_Witness ==
    Finished /\ code = WhileProgram(MaxIter) /\ Len(Printed) = MaxIter /\ exc = "none"

\* C7: VarIndex gives the element at i when the variable holds a list and i is
\* an int with 0 <= i < length, and raises SemanticError in every other case:
\* with l = [1,2,3], print(l[i]); prints i + 1 for i in 0..2 and faults for
\* every other i, negative ones included; and with v = e, print(v[j]); faults
\* unless e is a list and j one of its positions.
C7_IndexInRangeOrFault ==
    Finished =>
        /\ \A i \in -MaxIndex..MaxIndex :
              code = IndexProgram(i) =>
                  IF 0 <= i /\ i < 3 THEN Printed = <<I(i + 1)>> /\ exc = "none"
                  ELSE Printed = <<>> /\ exc = "SemanticError"
        /\ \A i, j \in 1..Len(Operands) :
              code = IndexOfProgram(Operands[i], Operands[j]) =>
                  IF /\ Operands[i].k = "list" /\ Operands[j].k = "int"
                     /\ 0 <= Operands[j].n /\ Operands[j].n < Len(Operands[i].v)
                  THEN Printed = <<ValueOf(Operands[i].v[Operands[j].n + 1])>> /\ exc = "none"
                  ELSE Printed = <<>> /\ exc = "SemanticError"

\* C8: for ints a and b /= 0, Divide gives a / b truncated toward zero; it
\* raises SemanticError for b = 0 and when an operand is not an int:
\* print(a / b); prints the truncated quotient, for small operands and for
\* integer literals beyond 2^53 alike.
C8_DivideTruncates ==
    Finished =>
        /\ \A a, b \in -MaxOperand..MaxOperand :
              code = DivideProgram(a, b) =>
                  IF b = 0 THEN Printed = <<>> /\ exc = "SemanticError"
                  ELSE Printed = <<I(TruncDiv(a, b))>> /\ exc = "none"
        /\ \A i, j \in 1..Len(BigLiterals) :
              code = DivideBigProgram(BigLiterals[i], BigLiterals[j]) =>
                  Printed = <<IntVal(1, NatDivMod(DigitsToNat(BigLiterals[i]),
                                                  DigitsToNat(BigLiterals[j]))[1])>>
        /\ \A i, j \in 1..Len(Operands) :
              (/\ code = DivideOfProgram(Operands[i], Operands[j])
               /\ (Operands[i].k # "int" \/ Operands[j].k # "int")) =>
                  Printed = <<>> /\ exc = "SemanticError"

\* C9: Add gives the sum of two ints and the concatenation of two strs, and
\* raises SemanticError for every other pair of kinds, a pair of lists
\* included: print(a + b); prints the sum or the concatenation, or faults.
C9_AddSumsOrConcatenates ==
    Finished =>
        \A i, j \in 1..Len(Operands) :
            code = AddProgram(Operands[i], Operands[j]) =>
                IF Operands[i].k = "int" /\ Operands[j].k = "int"
                THEN Printed = <<I(Operands[i].n + Operands[j].n)>> /\ exc = "none"
                ELSE IF Operands[i].k = "str" /\ Operands[j].k = "str"
                THEN Printed = <<StrVal(Operands[i].v \o Operands[j].v)>> /\ exc = "none"
                ELSE Printed = <<>> /\ exc = "SemanticError"

\* the sum of two lists has faulted
C9_Witness ==
    /\ Finished /\ exc = "SemanticError" /\ Printed = <<>>
    /\ code = AddProgram(SrcList(<<>>), SrcList(<<SrcInt(1)>>))

\* C10: a fault stops evaluation where it is raised.  The step that raises
\* leaves global_scope and every list as they were and leaves no statement
\* pending, and nothing is written afterwards; so in
\* { x = 1; l = [1]; <faulty>; x = 2; l[0] = 2; print(x); } the run ends with
\* x = 1 and l = [1] and nothing printed, and in
\* { i = 0; l = [1]; while (i < 3) { i = i + 1; if (i == 2) { <faulty> x = 7; }
\* print(i); } x = 9; } with i = 2, l = [1], no x, and only 1 printed.
C10_FaultStopsEvaluation ==
    /\ [][exc' # "none" =>
              /\ global_scope' = global_scope
              /\ \A a \in 1..Len(heap) : heap'[a] = heap[a]
              /\ stack' = <<>>]_vars
    /\ [](Finished =>
              \A i \in 1..Len(Faulty) :
                  /\ code = FaultInBlock(i) =>
                        /\ exc # "none" /\ Printed = <<>>
                        /\ Env = [x |-> I(1), l |-> ListValue(<<I(1)>>)]
                  /\ code = FaultInLoop(i) =>
                        /\ exc # "none" /\ Printed = <<I(1)>>
                        /\ Env = [i |-> I(2), l |-> ListValue(<<I(1)>>)])

\* an assignment whose right side faults inside the loop's second round has
\* ended the run
C10_Witness ==
    /\ Finished /\ exc = "SemanticError" /\ Printed = <<I(1)>>
    /\ code = FaultInLoop(1) /\ "y" \notin DOMAIN global_scope

\* C11: depth is total on every value the language builds: 0 for an int or a
\* str, 1 for the empty list, 1 + the largest depth of the items for a list
\* with items.  So depth of every list in the heap returns, with 1 for an empty
\* one, and print([e1, ..., en]); ends with one value printed and nothing
\* raised, also when an element is the empty list, as in [[], 1].
C11_DepthIsTotal ==
    /\ \A a \in 1..Len(heap) :
          /\ depth(RefVal(a), heap, {}).exc = "none"
          /\ heap[a] = <<>> => depth(RefVal(a), heap, {}).d = 1
    /\ Finished =>
          \A n \in 0..MaxListLen :
              \A f \in [1..n -> 1..Len(Elems)] :
                  code = ListProgram(f) => exc = "none" /\ Len(Printed) = 1


====
